---- MODULE Spec2Model ----
(***************************************************************************)
(* Model of tortto/autograd/grad_fcn_misc.py: the five operation nodes     *)
(* Split, Expand, MaskedFill, CopySlices and Copy (forward and backward).  *)
(*                                                                         *)
(* Arrays are modelled with buffer identity: an array object names a       *)
(* buffer of the heap and the buffer positions of its elements (row-major).*)
(* A view shares its base's buffer; a copy has a buffer of its own.  This  *)
(* is what lets in-place writes through one name show through another.     *)
(***************************************************************************)
EXTENDS Integers, Sequences, FiniteSets, TLC

\* Largest size of one dimension of a tensor.
MaxDim == 2
\* Longest chain of successful forward calls in SpecSeq.
MaxOps == 2

VARIABLES heap, xt, nodes, call
vars == <<heap, xt, nodes, call>>

(***************************************************************************)
(* Integer and sequence helpers                                            *)
(***************************************************************************)
Min(a, b) == IF a < b THEN a ELSE b
Max(a, b) == IF a > b THEN a ELSE b

RECURSIVE Prod(_)
Prod(s) == IF Len(s) = 0 THEN 1 ELSE s[1] * Prod(Tail(s))

RECURSIVE SumSeq(_)
SumSeq(s) == IF Len(s) = 0 THEN 0 ELSE s[1] + SumSeq(Tail(s))

RECURSIVE Flat(_)
Flat(ss) == IF Len(ss) = 0 THEN <<>> ELSE ss[1] \o Flat(Tail(ss))

\* np.cumsum
CumSum(s) == [j \in 1..Len(s) |-> SumSeq(SubSeq(s, 1, j))]

\* Python's index normalisation: a negative index counts from the end.
NormAxis(d, n) == IF d < 0 THEN d + n ELSE d

(***************************************************************************)
(* N-dimensional arrays (numpy / cupy)                                     *)
(***************************************************************************)
\* The multi-indices (0-based) of a shape, in row-major (C) order.
RECURSIVE RowMajor(_)
RowMajor(shape) ==
    IF Len(shape) = 0 THEN << <<>> >>
    ELSE LET rest == RowMajor(Tail(shape))
         IN  Flat([i \in 1..shape[1] |->
                      [k \in 1..Len(rest) |-> <<i - 1>> \o rest[k]]])

\* Strides, in elements, of a C-contiguous array: the product of the later
\* axes' lengths, an axis of length 0 counting as 1.
CStrides(shape) ==
    [d \in 1..Len(shape) |->
        Prod([k \in 1..(Len(shape) - d) |-> Max(shape[d + k], 1)])]

Dot(idx, strides) == SumSeq([d \in 1..Len(idx) |-> idx[d] * strides[d]])

\* Flat (1-based) position of a multi-index in a C-contiguous array.
Ravel(idx, shape) == 1 + Dot(idx, CStrides(shape))

\* Python's None.
None == [buf |-> 0, shape |-> <<>>, at |-> <<>>, dev |-> "none"]
IsNone(a) == a.buf = 0

\* A new array with a buffer of its own.
Alloc(h, shape, vals, dev) ==
    [heap |-> Append(h, vals),
     arr  |-> [buf |-> Len(h) + 1, shape |-> shape,
               at |-> [k \in 1..Prod(shape) |-> k], dev |-> dev]]

\* The elements of an array, row-major.
Read(h, a) == [k \in 1..Len(a.at) |-> h[a.buf][a.at[k]]]

RECURSIVE WriteSeq(_, _, _)
WriteSeq(b, at, vals) ==
    IF Len(at) = 0 THEN b
    ELSE WriteSeq([b EXCEPT ![at[1]] = vals[1]], Tail(at), Tail(vals))

\* The positions 1..n of an array's row-major order.
Indices(shape) == [k \in 1..Prod(shape) |-> k]

\* a[:, ..., lo:hi, ..., :] with the slice on axis d (0-based), for
\* 0 <= lo, hi: a view.  Python clips the slice to the axis.
SliceAxis(a, d, lo, hi) ==
    LET n   == a.shape[d + 1]
        s   == Min(lo, n)
        e   == Min(hi, n)
        ix  == RowMajor(a.shape)
        pos == SelectSeq(Indices(a.shape),
                         LAMBDA k : s <= ix[k][d + 1] /\ ix[k][d + 1] < e)
    IN  [buf |-> a.buf,
         shape |-> [a.shape EXCEPT ![d + 1] = Max(0, e - s)],
         at |-> [k \in 1..Len(pos) |-> a.at[pos[k]]],
         dev |-> a.dev]

\* np.concatenate(pieces, axis=d) of pieces [shape, vals], d normalised: the
\* shape and the row-major elements of the (new) result.
ConcatShape(pieces, d) ==
    [pieces[1].shape EXCEPT
        ![d + 1] = SumSeq([j \in 1..Len(pieces) |-> pieces[j].shape[d + 1]])]

ConcatVals(pieces, d) ==
    LET cum == CumSum([j \in 1..Len(pieces) |-> pieces[j].shape[d + 1]])
        ix  == RowMajor(ConcatShape(pieces, d))
        Src(idx) == CHOOSE j \in 1..Len(pieces) :
                        /\ idx[d + 1] < cum[j]
                        /\ \A i \in 1..(j - 1) : idx[d + 1] >= cum[i]
        Val(idx) ==
            LET j == Src(idx)
                local == [idx EXCEPT
                            ![d + 1] = idx[d + 1] - (cum[j] - pieces[j].shape[d + 1])]
            IN  pieces[j].vals[Ravel(local, pieces[j].shape)]
    IN  [k \in 1..Len(ix) |-> Val(ix[k])]

(***************************************************************************)
(* Collaborators from .function and .helper (not in grad_fcn_misc.py)      *)
(***************************************************************************)
\* build_links(array, grad_fn=ctx, _output_idx=i): the tensor wrapping a
\* result array, naming the node that produced it and its output slot.
build_links(arr, node, idx) ==
    [data |-> arr, version |-> 0, grad_fn |-> node, output_idx |-> idx]

\* ctx.save_for_backward(t): the tensor is kept with the version it has now.
save_for_backward(t) == [version |-> t.version]

\* ctx.saved_tensors: reading a saved tensor back fails when its version is
\* no longer the one that was saved.
saved_tensors_ok(ctx, t) == ctx.saved.version = t.version

\* inplace_precheck(t): rejects the mutation of a tensor that must not be
\* written in place.
inplace_precheck_ok(t) == ~t.noinplace

\* inplace_update(t, ctx): the tensor keeps its storage, its version is
\* bumped and ctx becomes its producer.
inplace_update(t, node) ==
    [t EXCEPT !.version = t.version + 1, !.grad_fn = node]

(***************************************************************************)
(* Results of a call                                                       *)
(***************************************************************************)
NoCtx == [op |-> "none"]

\* forward raised e, with the heap and the input tensor as they are by then
Raise(h, x, ev, e) ==
    [err |-> e, heap |-> h, xt |-> x, out |-> <<>>, ctx |-> NoCtx, events |-> ev]

\* forward returned the tensors out
Return(h, x, ev, out, ctx) ==
    [err |-> "", heap |-> h, xt |-> x, out |-> out, ctx |-> ctx, events |-> ev]

\* backward raised e / returned grads
RaiseB(h, e) == [err |-> e, heap |-> h, grads |-> <<>>]
ReturnB(h, grads) == [err |-> "", heap |-> h, grads |-> grads]

(***************************************************************************)
(* Split                                                                   *)
(***************************************************************************)
\* range(0, n, step), step >= 1
PyRange(n, step) == [q \in 1..((n + step - 1) \div step) |-> (q - 1) * step]

\* lines 49-51: save the input, record the outputs' shapes, return them
Split_finish(h, x, node, dim, ytn) ==
    Return(h, x,
           [q \in 1..Len(ytn) |-> "build_links"] \o <<"save_for_backward">>,
           ytn,
           [op |-> "Split", dim |-> dim, saved |-> save_for_backward(x),
            output_shapes |-> [q \in 1..Len(ytn) |-> ytn[q].data.shape],
            xp |-> x.data.dev, nin |-> 1])

Split_forward(h, x, node, dim, sos) ==
    LET xd0      == x.data
        nd       == Len(xd0.shape)
        dim_size == xd0.shape[NormAxis(dim, nd) + 1]
        d        == IF dim < 0 THEN dim + nd ELSE dim
    IN  IF sos.int
        THEN LET split_size == sos.n
                 js  == PyRange(dim_size, split_size)
                 ytn == [q \in 1..Len(js) |->
                           build_links(SliceAxis(xd0, d, js[q], js[q] + split_size),
                                       node, js[q] \div split_size)]
             IN  Split_finish(h, x, node, dim, ytn)
        ELSE LET sections == sos.secs
             IN  IF SumSeq(sections) # dim_size
                 THEN Raise(h, x, <<>>, "RuntimeError: split_with_sizes")
                 ELSE LET sum_sections == CumSum(sections)
                          ytn == [j \in 1..Len(sections) |->
                                    build_links(
                                        SliceAxis(xd0, d,
                                                  sum_sections[j] - sections[j],
                                                  sum_sections[j]),
                                        node, j - 1)]
                      IN  Split_finish(h, x, node, dim, ytn)

Split_backward(h, x, ctx, grad_outputs) ==
    IF ~saved_tensors_ok(ctx, x)
    THEN RaiseB(h, "RuntimeError: stale saved tensor")
    ELSE LET output_shapes == ctx.output_shapes
             pieces == [i \in 1..Len(grad_outputs) |->
                          IF IsNone(grad_outputs[i])
                          THEN [shape |-> output_shapes[i],
                                vals  |-> [k \in 1..Prod(output_shapes[i]) |-> 0]]
                          ELSE [shape |-> grad_outputs[i].shape,
                                vals  |-> Read(h, grad_outputs[i])]]
         IN  IF Len(pieces) = 0
             THEN RaiseB(h, "ValueError: need at least one array to concatenate")
             ELSE LET d == NormAxis(ctx.dim, Len(pieces[1].shape))
                      r == Alloc(h, ConcatShape(pieces, d), ConcatVals(pieces, d),
                                 ctx.xp)
                  IN  ReturnB(r.heap, <<r.arr>>)

(***************************************************************************)
(* Expand                                                                  *)
(***************************************************************************)
\* Python list item at a possibly negative index i (0-based), 1-based here.
PyAt(n, i) == NormAxis(i, n) + 1

\* lines 79-94: the loop over the target sizes, from index i0 (0-based) on.
\* st is the loop's state: strides and xd0_singleton_dims so far.
RECURSIVE Expand_loop(_, _, _, _, _)
Expand_loop(i0, sizes, shape, leading_dims, st) ==
    IF i0 >= Len(sizes) THEN st
    ELSE IF i0 < leading_dims
    THEN IF sizes[i0 + 1] <= 0
         THEN [st EXCEPT !.err = "RuntimeError: leading size not allowed"]
         ELSE Expand_loop(i0 + 1, sizes, shape, leading_dims, st)
    ELSE LET i == i0 - Len(sizes)
         IN  IF shape[PyAt(Len(shape), i)] = 1
             THEN IF sizes[PyAt(Len(sizes), i)] > 1
                  THEN Expand_loop(i0 + 1, sizes, shape, leading_dims,
                           [st EXCEPT
                               !.xd0_singleton_dims = Append(@, i),
                               !.strides[PyAt(Len(st.strides), i)] = 0])
                  ELSE Expand_loop(i0 + 1, sizes, shape, leading_dims, st)
             ELSE IF sizes[PyAt(Len(sizes), i)] # -1
                     /\ shape[PyAt(Len(shape), i)] # sizes[PyAt(Len(sizes), i)]
                  THEN [st EXCEPT !.err = "RuntimeError: size must match"]
                  ELSE Expand_loop(i0 + 1, sizes, shape, leading_dims, st)

\* xp.lib.stride_tricks.as_strided(a, shape, strides): a view of a's buffer;
\* numpy refuses a negative dimension and a strides/shape length mismatch.
as_strided_ok(shape, strides) ==
    /\ Len(shape) = Len(strides)
    /\ \A d \in 1..Len(shape) : shape[d] >= 0

as_strided(a, shape, strides) ==
    LET ix   == RowMajor(shape)
        base == IF Len(a.at) = 0 THEN 1 ELSE a.at[1]
    IN  [buf |-> a.buf, shape |-> shape,
         at |-> [k \in 1..Len(ix) |-> base + Dot(ix[k], strides)],
         dev |-> a.dev]

Expand_forward(h, x, node, sizes) ==
    LET xd0 == x.data
        leading_dims == Len(sizes) - Len(xd0.shape)
        strides0 == [k \in 1..Max(0, leading_dims) |-> 0] \o CStrides(xd0.shape)
        st == Expand_loop(0, sizes, xd0.shape, leading_dims,
                          [err |-> "", strides |-> strides0,
                           xd0_singleton_dims |-> <<>>])
    IN  IF st.err # "" THEN Raise(h, x, <<>>, st.err)
        ELSE IF ~as_strided_ok(sizes, st.strides)
        THEN Raise(h, x, <<>>, "ValueError: as_strided")
        ELSE LET yd0 == as_strided(xd0, sizes, st.strides)
                 yt0 == [build_links(yd0, node, 0) EXCEPT !.version = x.version]
             IN  Return(h, x, <<"build_links">>, <<yt0>>,
                        [op |-> "Expand",
                         xd0_singleton_dims |-> st.xd0_singleton_dims,
                         leading_dims |-> leading_dims,
                         yshape |-> sizes, xp |-> xd0.dev, nin |-> 1])

\* a.sum(axes, keepdims=True) for a of the given shape and elements; axes is a
\* set of normalised (0-based) axes.
SumKeepShape(shape, axes) ==
    [d \in 1..Len(shape) |-> IF (d - 1) \in axes THEN 1 ELSE shape[d]]

SumKeepVals(shape, vals, axes) ==
    LET rs == RowMajor(SumKeepShape(shape, axes))
        ix == RowMajor(shape)
        Into(r) == SelectSeq(Indices(shape),
                       LAMBDA k : \A d \in 1..Len(shape) :
                                     (d - 1) \in axes \/ ix[k][d] = r[d])
        Total(r) == LET pos == Into(r)
                    IN  SumSeq([j \in 1..Len(pos) |-> vals[pos[j]]])
    IN  [k \in 1..Len(rs) |-> Total(rs[k])]

Expand_backward(h, ctx, gd0) ==
    LET nd   == Len(gd0.shape)
        xd0_singleton_dims == ctx.xd0_singleton_dims
        leading_dims == {k \in 0..(ctx.leading_dims - 1) : TRUE}
        axes == {NormAxis(xd0_singleton_dims[j], nd) :
                    j \in 1..Len(xd0_singleton_dims)} \cup leading_dims
        kshape == SumKeepShape(gd0.shape, axes)
        kvals  == SumKeepVals(gd0.shape, Read(h, gd0), axes)
        \* .squeeze(leading_dims): the leading axes, all of size 1, are dropped
        r == Alloc(h, SubSeq(kshape, Cardinality(leading_dims) + 1, nd), kvals,
                   gd0.dev)
    IN  ReturnB(r.heap, <<r.arr>>)

(***************************************************************************)
(* Indexing with a key, and assignment through it                          *)
(***************************************************************************)
\* The rows of axis 0 a key selects, in the key's order, and whether the
\* first axis is kept in the result.  "mask" keys are handled apart.
KeyRows(key, n) ==
    CASE key.kind = "slice" ->
            LET s == Min(key.lo, n)
                e == Min(key.hi, n)
            IN  [j \in 1..Max(0, e - s) |-> s + j - 1]
      [] key.kind = "int"   -> <<key.lo>>
      [] key.kind = "index" -> key.idx

\* The shape of a[key] for an array of the given shape.
KeyShape(shape, key) ==
    CASE key.kind = "ellipsis" -> shape
      [] key.kind = "mask" ->
            SubSeq(shape, 1, Len(shape) - Len(key.shape))
                \o <<Len(SelectSeq(key.vals, LAMBDA b : b))>>
      [] key.kind = "int" -> Tail(shape)
      [] OTHER -> <<Len(KeyRows(key, shape[1]))>> \o Tail(shape)

\* The positions of a's buffer that a[key] names, row-major.  cupy wraps the
\* out-of-range entries of a list around the axis.
KeyAt(a, key) ==
    IF key.kind = "ellipsis" THEN a.at
    ELSE IF key.kind = "mask"
    THEN LET lead == Len(a.shape) - Len(key.shape)
             ix   == RowMajor(a.shape)
             pos  == SelectSeq(Indices(a.shape),
                        LAMBDA k : key.vals[Ravel(SubSeq(ix[k], lead + 1, Len(ix[k])),
                                                  key.shape)])
         IN  [k \in 1..Len(pos) |-> a.at[pos[k]]]
    ELSE LET rows  == KeyRows(key, a.shape[1])
             rowsz == Prod(Tail(a.shape))
             Row(j) == IF key.kind = "index" /\ a.dev = "cp"
                       THEN rows[j] % a.shape[1]
                       ELSE rows[j]
         IN  Flat([j \in 1..Len(rows) |->
                     [k \in 1..rowsz |-> a.at[Row(j) * rowsz + k]]])

Select(a, key) == [shape |-> KeyShape(a.shape, key), at |-> KeyAt(a, key)]

\* Whether a[key] is a view of a.  A slice and Ellipsis give a view, a list
\* and a mask a copy.  An integer gives a view of a row, but of a
\* 1-dimensional array it names one element: numpy returns that element as a
\* scalar with storage of its own, cupy a 0-dimensional array that is a view.
IsView(a, key) ==
    \/ key.kind \in {"slice", "ellipsis"}
    \/ key.kind = "int" /\ (Len(a.shape) > 1 \/ a.dev = "cp")

\* The view a[key].
ViewOf(a, key) ==
    LET sel == Select(a, key)
    IN  [buf |-> a.buf, shape |-> sel.shape, at |-> sel.at, dev |-> a.dev]

\* Whether an array of shape s can be assigned to a selection of shape t: the
\* axes s has more than t are leading ones of length 1, and each other axis
\* is of t's length or of length 1.
BroadcastOK(s, t) ==
    \A d \in 1..Len(s) :
        IF d <= Len(s) - Len(t) THEN s[d] = 1
        ELSE LET td == t[Len(t) - Len(s) + d] IN s[d] = td \/ s[d] = 1

\* The elements of an array of shape s broadcast to shape t, row-major
\* (leading axes of length 1 that t has not are dropped).
BroadcastVals(vals, s, t) ==
    LET ix == RowMajor(t)
        lead == Len(t) - Len(s)
        From(idx) == [d \in 1..Len(s) |-> IF s[d] = 1 THEN 0 ELSE idx[lead + d]]
    IN  [k \in 1..Len(ix) |-> vals[Ravel(From(ix[k]), s)]]

\* a[key] = 0
ZeroKey(h, a, key) ==
    LET sel == Select(a, key)
    IN  [h EXCEPT ![a.buf] = WriteSeq(h[a.buf], sel.at, [k \in 1..Len(sel.at) |-> 0])]

\* a.get() and cp.array(a): a new array on the other backend.
get(h, a) == Alloc(h, a.shape, Read(h, a), "np")
cp_array(h, a) == Alloc(h, a.shape, Read(h, a), "cp")

\* reverse_broadcast(result, target_shape) of .helper, which is not part of
\* grad_fcn_misc.py: the sum of result over the axes broadcasting added or
\* stretched.  Where an axis is summed the sum is a new array of
\* target_shape.  Where none is (result has target_shape already, or
\* target_shape only has more leading axes of length 1) the helper is known
\* no further: it may return a new array or its argument's own storage
\* (how.fresh), of target_shape or of result's shape (how.reshape).
NothingSummed(shape, target_shape) ==
    /\ Len(shape) <= Len(target_shape)
    /\ target_shape = [k \in 1..(Len(target_shape) - Len(shape)) |-> 1] \o shape

Helpers == [fresh : BOOLEAN, reshape : BOOLEAN]
NoHelper == [fresh |-> TRUE, reshape |-> TRUE]

reverse_broadcast(h, result, target_shape, how) ==
    LET nd   == Len(result.shape)
        lead == nd - Len(target_shape)
        axes == {d \in 0..(nd - 1) :
                    \/ d < lead
                    \/ target_shape[d - lead + 1] = 1}
        shape == IF how.reshape THEN target_shape ELSE result.shape
    IN  IF ~NothingSummed(result.shape, target_shape)
        THEN Alloc(h, target_shape,
                   SumKeepVals(result.shape, Read(h, result), axes), result.dev)
        ELSE IF how.fresh
        THEN Alloc(h, shape, Read(h, result), result.dev)
        ELSE [heap |-> h, arr |-> [result EXCEPT !.shape = shape]]

\* Whether a[key] names elements of a: an integer is within the first axis,
\* and so are a list's entries on numpy (IndexError otherwise), while cupy
\* wraps a list's entries around an axis that has a length.
IndexOK(a, key) ==
    /\ key.kind \in {"slice", "int", "index"} => Len(a.shape) >= 1
    /\ key.kind = "int" => key.lo < a.shape[1]
    /\ key.kind = "index" =>
          IF a.dev = "cp"
          THEN Len(key.idx) > 0 => a.shape[1] > 0
          ELSE \A j \in 1..Len(key.idx) : key.idx[j] < a.shape[1]

\* Whether a[key] = src stores (it raises otherwise).  numpy drops the
\* leading axes of length 1 that src has more than the selection; whether
\* cupy does, or raises, is not established: lax says it does.
AssignOK(a, key, src, lax) ==
    /\ IndexOK(a, key)
    /\ BroadcastOK(src.shape, KeyShape(a.shape, key))
    /\ a.dev = "cp" /\ Len(src.shape) > Len(KeyShape(a.shape, key)) => lax

\* For each position that the stores at (a sequence of positions, one per
\* store) write, the store whose value stays: the last one to it.
LastStore(at) ==
    [p \in {at[k] : k \in 1..Len(at)} |->
        CHOOSE k \in 1..Len(at) :
            at[k] = p /\ \A j \in (k + 1)..Len(at) : at[j] # p]

\* Every choice, for each position of ps, of one of the stores to it.
RECURSIVE AnyStore(_, _)
AnyStore(ps, at) ==
    IF ps = {} THEN {<<>>}
    ELSE LET p == CHOOSE q \in ps : TRUE
         IN  {(p :> k) @@ w : k \in {j \in 1..Len(at) : at[j] = p},
                              w \in AnyStore(ps \ {p}, at)}

\* The stores that can stay after a[key] = src.  When a list names an
\* element more than once, numpy stores in order (the last value stays);
\* in cupy which value is stored is undefined: any of them.
Winners(a, key) ==
    LET at == KeyAt(a, key)
    IN  IF a.dev = "cp" /\ key.kind = "index"
        THEN AnyStore({at[k] : k \in 1..Len(at)}, at)
        ELSE {LastStore(at)}

\* a[key] = src with the stores win staying
AssignWith(h, a, key, src, win) ==
    LET sel  == Select(a, key)
        vals == BroadcastVals(Read(h, src), src.shape, sel.shape)
    IN  [h EXCEPT ![a.buf] =
            [p \in 1..Len(h[a.buf]) |->
                IF p \in DOMAIN win THEN vals[win[p]] ELSE h[a.buf][p]]]

\* a[key] = src for a key that names no element twice (Ellipsis, a mask)
Assign(h, a, key, src) == AssignWith(h, a, key, src, LastStore(KeyAt(a, key)))

(***************************************************************************)
(* MaskedFill                                                              *)
(***************************************************************************)
MaskKey(mask) ==
    [kind |-> "mask", lo |-> 0, hi |-> 0, idx |-> <<>>,
     shape |-> mask.shape, vals |-> mask.vals]

\* lines 115-126: the checks of the value, the mask and the backends
MaskedFill_validate(xd0, xd1, mask) ==
    IF Len(xd1.shape) > 0 THEN "RuntimeError: value must be 0-dimensional"
    ELSE IF mask.dtype # "bool" THEN "RuntimeError: mask must be bool"
    ELSE IF xd0.dev # "cp" /\ xd1.dev = "cp" THEN "RuntimeError: same device"
    ELSE ""

\* lines 122-138: the fill itself, in place or on a copy
MaskedFill_fill(h, x, node, xt1, mask, inplace) ==
    LET xd0  == x.data
        xd1  == xt1.data
        flag == xd0.dev = "cp" /\ xd1.dev # "cp"
        key  == MaskKey(mask)
        ctx  == [op |-> "MaskedFill", mask |-> mask, inplace |-> inplace,
                 flag |-> flag, yshape |-> xd0.shape, xp |-> xd0.dev, nin |-> 2]
    IN  IF inplace
        THEN IF ~inplace_precheck_ok(x)
             THEN Raise(h, x, <<"inplace_precheck">>,
                        "RuntimeError: inplace_precheck")
             ELSE LET h1  == Assign(h, xd0, key, xd1)
                      yt0 == inplace_update(x, node)
                  IN  Return(h1, yt0,
                             <<"inplace_precheck", "write", "inplace_update">>,
                             <<yt0>>, ctx)
        ELSE LET c  == Alloc(h, xd0.shape, Read(h, xd0), xd0.dev)
                 h1 == Assign(c.heap, c.arr, key, xd1)
             IN  Return(h1, x, <<"build_links">>,
                        <<build_links(c.arr, node, 0)>>, ctx)

\* A slip: the fill is done first and the checks after it.
MaskedFill_forward_fill_first(h, x, node, xt1, mask, inplace) ==
    LET r == MaskedFill_fill(h, x, node, xt1,
                             [mask EXCEPT !.dtype = "bool"], inplace)
        e == MaskedFill_validate(x.data, xt1.data, mask)
    IN  IF e # "" /\ Len(xt1.data.shape) = 0
        THEN Raise(r.heap, r.xt, r.events, e)
        ELSE IF e # "" THEN Raise(h, x, <<>>, e)
        ELSE r

MaskedFill_forward(h, x, node, xt1, mask, inplace) ==
    LET e == MaskedFill_validate(x.data, xt1.data, mask)
    IN  IF e # "" THEN Raise(h, x, <<>>, e)
        ELSE MaskedFill_fill(h, x, node, xt1, mask, inplace)

\* lines 147-151: grad1 = gd0[key].sum(), moved to the host when flag
MaskedFill_grad1(h, ctx, gd0) ==
    LET sel == Select(gd0, MaskKey(ctx.mask))
        t   == Alloc(h, <<>>,
                     <<SumSeq([k \in 1..Len(sel.at) |-> h[gd0.buf][sel.at[k]]])>>,
                     gd0.dev)
    IN  IF ctx.flag THEN get(t.heap, t.arr) ELSE t

\* lines 152-155: grad0 = gd0; grad0[key] = 0
MaskedFill_grad0(h, ctx, gd0) ==
    [heap |-> ZeroKey(h, gd0, MaskKey(ctx.mask)), arr |-> gd0]

Skip(h) == [heap |-> h, arr |-> None]

\* needs_input_grad is 0-based in the source: nig[1] is needs_input_grad[0].
MaskedFill_backward_zero_first(h, ctx, nig, gd0) ==
    LET s0 == IF nig[1] THEN MaskedFill_grad0(h, ctx, gd0) ELSE Skip(h)
        s1 == IF nig[2] THEN MaskedFill_grad1(s0.heap, ctx, gd0) ELSE Skip(s0.heap)
    IN  ReturnB(s1.heap, <<s0.arr, s1.arr>>)

MaskedFill_backward(h, ctx, nig, gd0) ==
    LET s1 == IF nig[2] THEN MaskedFill_grad1(h, ctx, gd0) ELSE Skip(h)
        s0 == IF nig[1] THEN MaskedFill_grad0(s1.heap, ctx, gd0) ELSE Skip(s1.heap)
    IN  ReturnB(s0.heap, <<s0.arr, s1.arr>>)

(***************************************************************************)
(* CopySlices and Copy                                                     *)
(***************************************************************************)
\* lines 166-172 and 206-212: the source brought to the destination's backend
SameBackend(h, xd0, xd1) ==
    IF xd0.dev = "cp" /\ xd1.dev # "cp"
    THEN [flag |-> "True"] @@ cp_array(h, xd1)
    ELSE IF xd0.dev # "cp" /\ xd1.dev = "cp"
    THEN [flag |-> "False"] @@ get(h, xd1)
    ELSE [flag |-> "None", heap |-> h, arr |-> xd1]

\* grad1 brought back to the source's backend
BackToSource(flag, r) ==
    IF flag = "True" THEN get(r.heap, r.arr)
    ELSE IF flag = "False" THEN cp_array(r.heap, r.arr)
    ELSE r

CopySlices_forward(h, x, node, xt1, key, lib) ==
    LET xd0 == x.data
        c   == SameBackend(h, xd0, xt1.data)
        xd1 == c.arr
    IN  IF ~inplace_precheck_ok(x)
        THEN Raise(c.heap, x, <<"inplace_precheck">>,
                   "RuntimeError: inplace_precheck")
        ELSE IF ~AssignOK(xd0, key, xd1, lib.lax)
        THEN Raise(c.heap, x, <<"inplace_precheck">>,
                   "index or broadcast error")
        ELSE LET h1  == AssignWith(c.heap, xd0, key, xd1, lib.win)
                 yt0 == inplace_update(x, node)
             IN  Return(h1, yt0,
                        <<"inplace_precheck", "write", "inplace_update">>, <<yt0>>,
                        [op |-> "CopySlices", key |-> key,
                         shapes |-> <<xd0.shape, xd1.shape>>, flag |-> c.flag,
                         yshape |-> xd0.shape, xp |-> xd0.dev, nin |-> 2])

\* gd0[key]: a view or a copy
GetItem(h, a, key) ==
    IF IsView(a, key) THEN [heap |-> h, arr |-> ViewOf(a, key)]
    ELSE LET sel == Select(a, key)
         IN  Alloc(h, sel.shape, [k \in 1..Len(sel.at) |-> h[a.buf][sel.at[k]]],
                   a.dev)

\* lines 187-192
CopySlices_grad1(h, ctx, gd0, how) ==
    LET sub == GetItem(h, gd0, ctx.key)
    IN  BackToSource(ctx.flag,
                     reverse_broadcast(sub.heap, sub.arr, ctx.shapes[2], how))

\* lines 193-195
CopySlices_grad0(h, ctx, gd0) ==
    [heap |-> ZeroKey(h, gd0, ctx.key), arr |-> gd0]

CopySlices_backward(h, ctx, nig, gd0, how) ==
    LET s1 == IF nig[2] THEN CopySlices_grad1(h, ctx, gd0, how) ELSE Skip(h)
        s0 == IF nig[1] THEN CopySlices_grad0(s1.heap, ctx, gd0) ELSE Skip(s1.heap)
    IN  ReturnB(s0.heap, <<s0.arr, s1.arr>>)

Ellipsis == [kind |-> "ellipsis", lo |-> 0, hi |-> 0, idx |-> <<>>]

\* A slip: the destination is written but inplace_update is not called.
Copy_forward_no_update(h, x, node, xt1, lax) ==
    LET xd0 == x.data
        c   == SameBackend(h, xd0, xt1.data)
    IN  IF ~inplace_precheck_ok(x) \/ ~AssignOK(xd0, Ellipsis, c.arr, lax)
        THEN Raise(c.heap, x, <<"inplace_precheck">>, "RuntimeError")
        ELSE Return(Assign(c.heap, xd0, Ellipsis, c.arr), x,
                    <<"inplace_precheck", "write">>, <<x>>,
                    [op |-> "Copy", flag |-> c.flag, yshape |-> xd0.shape,
                     xp |-> xd0.dev, nin |-> 2])

Copy_forward(h, x, node, xt1, lax) ==
    LET xd0 == x.data
        c   == SameBackend(h, xd0, xt1.data)
        xd1 == c.arr
    IN  IF ~inplace_precheck_ok(x)
        THEN Raise(c.heap, x, <<"inplace_precheck">>,
                   "RuntimeError: inplace_precheck")
        ELSE IF ~AssignOK(xd0, Ellipsis, xd1, lax)
        THEN Raise(c.heap, x, <<"inplace_precheck">>,
                   "index or broadcast error")
        ELSE LET h1  == Assign(c.heap, xd0, Ellipsis, xd1)
                 yt0 == inplace_update(x, node)
             IN  Return(h1, yt0,
                        <<"inplace_precheck", "write", "inplace_update">>, <<yt0>>,
                        [op |-> "Copy", flag |-> c.flag, yshape |-> xd0.shape,
                         xp |-> xd0.dev, nin |-> 2])

\* lines 226-231: grad1 = gd0, the same array unless a backend copy is made
Copy_grad1(h, ctx, gd0) == BackToSource(ctx.flag, [heap |-> h, arr |-> gd0])

\* lines 232-234: grad0 = gd0; grad0[...] = 0
Copy_grad0(h, ctx, gd0) == [heap |-> ZeroKey(h, gd0, Ellipsis), arr |-> gd0]

\* A slip: gd0 is zeroed whether or not the destination's gradient is wanted.
Copy_backward_always_zero(h, ctx, nig, gd0) ==
    LET s1 == IF nig[2] THEN Copy_grad1(h, ctx, gd0) ELSE Skip(h)
        s0 == Copy_grad0(s1.heap, ctx, gd0)
    IN  ReturnB(s0.heap, <<IF nig[1] THEN s0.arr ELSE None, s1.arr>>)

Copy_backward(h, ctx, nig, gd0) ==
    LET s1 == IF nig[2] THEN Copy_grad1(h, ctx, gd0) ELSE Skip(h)
        s0 == IF nig[1] THEN Copy_grad0(s1.heap, ctx, gd0) ELSE Skip(s1.heap)
    IN  ReturnB(s0.heap, <<s0.arr, s1.arr>>)

(***************************************************************************)
(* Inputs                                                                   *)
(***************************************************************************)
Devices == {"np", "cp"}

Shapes == {<<>>} \cup {<<a>> : a \in 0..MaxDim}
                 \cup {<<a, b>> : a \in 0..MaxDim, b \in 0..MaxDim}

\* Element patterns for input data and upstream gradients.
Ramp(n, base) == [k \in 1..n |-> base + k]
Ones(n) == [k \in 1..n |-> 1]
GradPatterns == {"ones", "ramp"}
GradVals(pat, n) == IF pat = "ones" THEN Ones(n) ELSE Ramp(n, 0)

\* The heap at the start of a call: the input tensor's storage alone.
Frame == <<heap[1]>>

\* dim of Split: every axis, counted from either end
SplitDims == {d \in (0 - 2)..1 : -Len(xt.data.shape) <= d /\ d < Len(xt.data.shape)}
SplitArgs ==
    {[int |-> TRUE, n |-> n, secs |-> <<>>] : n \in 1..MaxDim}
    \cup {[int |-> FALSE, n |-> 0, secs |-> <<a>>] : a \in 0..MaxDim}
    \cup {[int |-> FALSE, n |-> 0, secs |-> <<a, b>>] : a \in 0..MaxDim, b \in 0..MaxDim}

\* One upstream gradient per output: of the output's shape, or None for the
\* slot `miss` (0: none missing).
RECURSIVE AllocGrads(_, _, _, _, _)
AllocGrads(h, shapes, pat, miss, dev) ==
    IF Len(shapes) = 0 THEN [heap |-> h, arrs |-> <<>>]
    ELSE LET n    == Len(shapes)
             rest == AllocGrads(h, SubSeq(shapes, 1, n - 1), pat, miss, dev)
         IN  IF miss = n
             THEN [heap |-> rest.heap, arrs |-> Append(rest.arrs, None)]
             ELSE LET r == Alloc(rest.heap, shapes[n],
                                 GradVals(pat, Prod(shapes[n])), dev)
                  IN  [heap |-> r.heap, arrs |-> Append(rest.arrs, r.arr)]

(***************************************************************************)
(* State machine                                                           *)
(***************************************************************************)
NoCall ==
    [op |-> "none", ph |-> "init", err |-> "", node |-> 0, par |-> <<>>,
     pre |-> [data |-> <<>>, version |-> 0], src |-> None, srcvals |-> <<>>,
     out |-> <<>>, events |-> <<>>, gin |-> <<>>, gentry |-> <<>>,
     nig |-> <<>>, grads |-> <<>>, how |-> NoHelper]

Init ==
    \E shape \in Shapes, dev \in Devices, noinplace \in BOOLEAN :
        /\ heap = <<Ramp(Prod(shape), 0)>>
        /\ xt = [data |-> [buf |-> 1, shape |-> shape,
                           at |-> [k \in 1..Prod(shape) |-> k], dev |-> dev],
                 version |-> 0, grad_fn |-> 0, noinplace |-> noinplace]
        /\ nodes = <<>>
        /\ call = NoCall

\* A forward call of op with parameters par on xt (and the source src): r is
\* what the call did.
Forward(op, par, src, srcvals, r) ==
    /\ heap' = r.heap
    /\ xt' = r.xt
    /\ nodes' = IF r.err = "" THEN Append(nodes, r.ctx) ELSE nodes
    /\ call' = [NoCall EXCEPT !.op = op, !.ph = "forward", !.err = r.err,
                   !.node = IF r.err = "" THEN Len(nodes) + 1 ELSE 0,
                   !.par = par,
                   !.pre = [data |-> Read(heap, xt.data), version |-> xt.version],
                   !.src = src, !.srcvals = srcvals,
                   !.out = r.out, !.events = r.events]

\* A backward call of node i with upstream gradients gin (allocated in h);
\* how: what reverse_broadcast did in it, if it was called.
Backward(i, h, gin, nig, how, r) ==
    /\ heap' = r.heap
    /\ UNCHANGED <<xt, nodes>>
    /\ call' = [NoCall EXCEPT !.op = nodes[i].op, !.ph = "backward",
                   !.err = r.err, !.node = i, !.par = nodes[i],
                   !.pre = [data |-> Read(heap, xt.data), version |-> xt.version],
                   !.gin = gin,
                   !.gentry = [k \in 1..Len(gin) |->
                                 IF IsNone(gin[k]) THEN <<>> ELSE Read(h, gin[k])],
                   !.nig = nig, !.grads = r.grads, !.how = how]

\* sizes of Expand: one axis fewer than the input up to one more, each entry
\* from -1 up
RECURSIVE Tuples(_, _)
Tuples(n, S) ==
    IF n <= 0 THEN {<<>>}
    ELSE {Append(t, e) : t \in Tuples(n - 1, S), e \in S}

ExpandSizes ==
    LET nd == Len(xt.data.shape)
    IN  UNION {Tuples(n, (0 - 1)..MaxDim) : n \in Max(0, nd - 1)..(nd + 1)}

\* The value / source tensor of a two-input call, in buffer 2 of the frame.
SourceVals(shape) == Ramp(Prod(shape), 10)
SourceFrame(shape) == Frame \o <<SourceVals(shape)>>
Source(shape, dev) ==
    [data |-> [buf |-> 2, shape |-> shape, at |-> [k \in 1..Prod(shape) |-> k],
               dev |-> dev],
     version |-> 0, grad_fn |-> 0, noinplace |-> FALSE]

\* Fill values of MaskedFill: a 0-dimensional value on either backend, and a
\* 1-dimensional one.
FillValues == {[shape |-> <<>>, dev |-> d] : d \in Devices}
              \cup {[shape |-> <<1>>, dev |-> "np"]}

MaskVals(pat, n) == [k \in 1..n |-> pat = "all" \/ (pat = "odd" /\ k % 2 = 1)]

\* Masks over the input's trailing dimensions (all of them, or all but the
\* first); one mask of a non-boolean dtype.
Masks ==
    LET shape == xt.data.shape
        nd    == Len(shape)
        tails == {SubSeq(shape, k, nd) : k \in 1..Min(2, nd + 1)}
    IN  {[dtype |-> "bool", shape |-> t, vals |-> MaskVals(pat, Prod(t))] :
            t \in tails, pat \in {"none", "all", "odd"}}
        \cup {[dtype |-> "int64", shape |-> t, vals |-> MaskVals("all", Prod(t))] :
                t \in tails}

\* Keys of CopySlices: the whole array, a slice, an integer or a list of
\* integers on the first axis (entries may repeat; one list is out of range).
Keys ==
    LET shape == xt.data.shape
        n == IF Len(shape) = 0 THEN 0 ELSE shape[1]
    IN  {Ellipsis}
        \cup (IF Len(shape) = 0 THEN {}
              ELSE {[kind |-> "slice", lo |-> lo, hi |-> hi, idx |-> <<>>] :
                        lo \in 0..MaxDim, hi \in 0..MaxDim}
                   \cup {[kind |-> "int", lo |-> i, hi |-> 0, idx |-> <<>>] :
                            i \in 0..MaxDim}
                   \cup {[kind |-> "index", lo |-> 0, hi |-> 0, idx |-> t] :
                            t \in Tuples(1, 0..(n - 1)) \cup Tuples(2, 0..(n - 1))
                                   \cup (IF n >= 1 THEN {<<n>>} ELSE {})})

\* Shapes of a source written into a region: the region's own, a scalar, the
\* region's under one more axis of length 1, the region with its first axis
\* stretched from 1, and one that does not fit.
SourceShapes(region) ==
    {region, <<>>, <<1>> \o region, <<MaxDim + 1>>}
    \cup (IF Len(region) = 0 THEN {} ELSE {[region EXCEPT ![1] = 1]})

KeyValid(shape, key) ==
    key.kind = "int" => key.lo < shape[1]

\* ---- forward calls, each over a set of parameters ----
SplitCall(dims, args) ==
    \E dim \in dims, sos \in args :
        Forward("Split", [dim |-> dim, split_size_or_sections |-> sos], None, <<>>,
                Split_forward(Frame, xt, Len(nodes) + 1, dim, sos))

ExpandCall(sizeses) ==
    \E sizes \in sizeses :
        Forward("Expand", [sizes |-> sizes], None, <<>>,
                Expand_forward(Frame, xt, Len(nodes) + 1, sizes))

MaskedFillCall(values, masks, inplaces) ==
    \E v \in values, mask \in masks, inplace \in inplaces :
        Forward("MaskedFill", [mask |-> mask, inplace |-> inplace],
                Source(v.shape, v.dev).data, SourceVals(v.shape),
                MaskedFill_forward(SourceFrame(v.shape), xt, Len(nodes) + 1,
                                   Source(v.shape, v.dev), mask, inplace))

\* What cupy may do with a value of more axes than the selection; numpy
\* accepts it.
Lax == IF xt.data.dev = "cp" THEN BOOLEAN ELSE {TRUE}

CopySlicesCall(keys, devs) ==
    \E key \in keys, dev \in devs :
        \E shape \in (IF KeyValid(xt.data.shape, key)
                      THEN SourceShapes(KeyShape(xt.data.shape, key))
                      ELSE {<<>>}),
           win \in (IF IndexOK(xt.data, key)
                    THEN Winners(xt.data, key)
                    ELSE {<<>>}),
           lax \in Lax :
            Forward("CopySlices", [key |-> key],
                    Source(shape, dev).data, SourceVals(shape),
                    CopySlices_forward(SourceFrame(shape), xt, Len(nodes) + 1,
                                       Source(shape, dev), key,
                                       [win |-> win, lax |-> lax]))

CopyCall(shapes, devs) ==
    \E shape \in shapes, dev \in devs, lax \in Lax :
        Forward("Copy", <<>>, Source(shape, dev).data, SourceVals(shape),
                Copy_forward(SourceFrame(shape), xt, Len(nodes) + 1,
                             Source(shape, dev), lax))

\* ---- backward calls, each over a set of upstream gradients ----
\* The upstream gradient of a single-output node: of the output's shape, on
\* the node's backend, in buffer 2 of the frame.
Upstream(ctx, pat) ==
    Alloc(Frame, ctx.yshape, GradVals(pat, Prod(ctx.yshape)), ctx.xp)

SplitGrad(pats) ==
    \E i \in 1..Len(nodes) :
        /\ nodes[i].op = "Split"
        /\ \E pat \in pats, miss \in 0..Len(nodes[i].output_shapes) :
              LET g == AllocGrads(Frame, nodes[i].output_shapes, pat, miss,
                                  nodes[i].xp)
              IN  Backward(i, g.heap, g.arrs, <<TRUE>>, NoHelper,
                           Split_backward(g.heap, xt, nodes[i], g.arrs))

ExpandGrad(pats) ==
    \E i \in 1..Len(nodes) :
        /\ nodes[i].op = "Expand"
        /\ \E pat \in pats :
              LET g == Upstream(nodes[i], pat)
              IN  Backward(i, g.heap, <<g.arr>>, <<TRUE>>, NoHelper,
                           Expand_backward(g.heap, nodes[i], g.arr))

MaskedFillGrad(pats) ==
    \E i \in 1..Len(nodes) :
        /\ nodes[i].op = "MaskedFill"
        /\ \E pat \in pats, nig \in BOOLEAN \X BOOLEAN :
              LET g == Upstream(nodes[i], pat)
              IN  Backward(i, g.heap, <<g.arr>>, nig, NoHelper,
                           MaskedFill_backward(g.heap, nodes[i], nig, g.arr))

CopySlicesGrad(pats) ==
    \E i \in 1..Len(nodes) :
        /\ nodes[i].op = "CopySlices"
        /\ \E pat \in pats, nig \in BOOLEAN \X BOOLEAN, how \in Helpers :
              LET g == Upstream(nodes[i], pat)
              IN  Backward(i, g.heap, <<g.arr>>, nig, how,
                           CopySlices_backward(g.heap, nodes[i], nig, g.arr, how))

CopyGrad(pats) ==
    \E i \in 1..Len(nodes) :
        /\ nodes[i].op = "Copy"
        /\ \E pat \in pats, nig \in BOOLEAN \X BOOLEAN :
              LET g == Upstream(nodes[i], pat)
              IN  Backward(i, g.heap, <<g.arr>>, nig, NoHelper,
                           Copy_backward(g.heap, nodes[i], nig, g.arr))

(***************************************************************************)
(* Spec: one forward call on a new tensor, then backward calls of its node.*)
(* An error is not caught: nothing is called after a call that raised.     *)
(***************************************************************************)
Running == call.err = ""
First == Running /\ call.ph = "init"

SplitForward == First /\ SplitCall(SplitDims, SplitArgs)
ExpandForward == First /\ ExpandCall(ExpandSizes)
MaskedFillForward == First /\ MaskedFillCall(FillValues, Masks, BOOLEAN)
CopySlicesForward == First /\ CopySlicesCall(Keys, Devices)
CopyForward == First /\ CopyCall(SourceShapes(xt.data.shape), Devices)
SplitBackward == Running /\ SplitGrad(GradPatterns)
ExpandBackward == Running /\ ExpandGrad(GradPatterns)
MaskedFillBackward == Running /\ MaskedFillGrad(GradPatterns)
CopySlicesBackward == Running /\ CopySlicesGrad(GradPatterns)
CopyBackward == Running /\ CopyGrad(GradPatterns)

Next ==
    \/ SplitForward
    \/ ExpandForward
    \/ MaskedFillForward
    \/ CopySlicesForward
    \/ CopyForward
    \/ SplitBackward
    \/ ExpandBackward
    \/ MaskedFillBackward
    \/ CopySlicesBackward
    \/ CopyBackward

Spec == Init /\ [][Next]_vars

(***************************************************************************)
(* SpecSeq: chains of up to MaxOps successful forward calls on one tensor,  *)
(* then backward calls of any node of the chain (forward calls return      *)
(* before any backward call begins).  Each call draws from a few           *)
(* parameters: every operation, in place and not, succeeding and failing.  *)
(***************************************************************************)
InitSeq == Init /\ Len(xt.data.shape) <= 1

Open == Running /\ call.ph # "backward" /\ Len(nodes) < MaxOps

SeqMasks ==
    {[dtype |-> d, shape |-> xt.data.shape,
      vals |-> MaskVals("all", Prod(xt.data.shape))] : d \in {"bool", "int64"}}

SeqKeys == {k \in Keys : k.kind = "slice" /\ k.lo = 0 /\ k.hi = 1}

SeqSplitForward ==
    Open /\ SplitCall(SplitDims \cap {0}, {a \in SplitArgs : a.int /\ a.n = 1})
SeqExpandForward == Open /\ ExpandCall({xt.data.shape, <<0>> \o xt.data.shape})
SeqMaskedFillForward ==
    Open /\ MaskedFillCall({[shape |-> <<>>, dev |-> "np"]}, SeqMasks, BOOLEAN)
SeqCopySlicesForward == Open /\ CopySlicesCall(SeqKeys, {"np"})
SeqCopyForward == Open /\ CopyCall({<<>>}, Devices)
SeqSplitBackward == Running /\ SplitGrad({"ramp"})
SeqExpandBackward == Running /\ ExpandGrad({"ramp"})
SeqMaskedFillBackward == Running /\ MaskedFillGrad({"ramp"})
SeqCopySlicesBackward == Running /\ CopySlicesGrad({"ramp"})
SeqCopyBackward == Running /\ CopyGrad({"ramp"})

NextSeq ==
    \/ SeqSplitForward
    \/ SeqExpandForward
    \/ SeqMaskedFillForward
    \/ SeqCopySlicesForward
    \/ SeqCopyForward
    \/ SeqSplitBackward
    \/ SeqExpandBackward
    \/ SeqMaskedFillBackward
    \/ SeqCopySlicesBackward
    \/ SeqCopyBackward

SpecSeq == InitSeq /\ [][NextSeq]_vars

(***************************************************************************)
(* Vocabulary of the properties                                            *)
(***************************************************************************)
Fwd(op) == call.op = op /\ call.ph = "forward"
Bwd(op) == call.op = op /\ call.ph = "backward"
Ok == call.err = ""

\* The upstream gradient of the last backward call of a single-output node,
\* and the elements it had when the call was entered.
G == call.gin[1]
GEntry == call.gentry[1]

Zeros(n) == [k \in 1..n |-> 0]
IsSet(a) == ~IsNone(a)

\* The index of the source element that broadcasting an array of shape s to
\* shape t puts at index idx of the result.
BroadcastSource(idx, s, t) ==
    [d \in 1..Len(s) |-> IF s[d] = 1 THEN 0 ELSE idx[Len(t) - Len(s) + d]]

\* What an upstream gradient of shape t with elements vals gives each
\* element of a source of shape s that was broadcast to t: the sum of the
\* elements it was copied to.
ReduceTo(vals, t, s) ==
    LET ss == RowMajor(s)
        tt == RowMajor(t)
        Into(p) == SelectSeq(Indices(t),
                             LAMBDA k : BroadcastSource(tt[k], s, t) = p)
    IN  [j \in 1..Len(ss) |->
            SumSeq([i \in 1..Len(Into(ss[j])) |-> vals[Into(ss[j])[i]]])]

\* vals with the positions in the set region set to 0
ZeroedAt(vals, region) ==
    [k \in 1..Len(vals) |-> IF k \in region THEN 0 ELSE vals[k]]

SetOf(seq) == {seq[k] : k \in 1..Len(seq)}

\* In-place nodes: those whose forward wrote its first input.
InPlace(ctx) ==
    \/ ctx.op \in {"CopySlices", "Copy"}
    \/ ctx.op = "MaskedFill" /\ ctx.inplace

(***************************************************************************)
(* Copy                                                                    *)
(***************************************************************************)
\* C1: after Copy.forward wrote every element of the destination,
\* Copy.backward returns an all-zero gradient of the upstream gradient's
\* shape for the destination and the upstream gradient, unchanged (as it was
\* on entry), for the source, whichever gradients are requested -- both
\* included, on one backend or two.
C1_CopyFullOverwrite ==
    Bwd("Copy") /\ Ok =>
        /\ call.nig[1] =>
              /\ IsSet(call.grads[1])
              /\ call.grads[1].shape = G.shape
              /\ Read(heap, call.grads[1]) = Zeros(Prod(G.shape))
        /\ call.nig[2] =>
              /\ IsSet(call.grads[2])
              /\ call.grads[2].shape = G.shape
              /\ Read(heap, call.grads[2]) = GEntry

\* The same holds of every call that does not ask for both gradients of
\* tensors on one backend (ctx.params['copy'] is None).
C1_HoldsUnlessBothOnOneBackend ==
    Bwd("Copy") /\ Ok /\ ~(call.nig[1] /\ call.nig[2] /\ call.par.flag = "None")
        => C1_CopyFullOverwrite

(***************************************************************************)
(* CopySlices                                                              *)
(***************************************************************************)
\* The positions of the upstream gradient that the key of the node names.
Region == SetOf(KeyAt([G EXCEPT !.at = Indices(G.shape)],
                      call.par.key))
RegionVals ==
    LET at == KeyAt([G EXCEPT !.at = Indices(G.shape)],
                    call.par.key)
    IN  [k \in 1..Len(at) |-> GEntry[at[k]]]

\* C2: CopySlices.backward returns, for the destination, the upstream
\* gradient with the region of the key set to 0 and every other element as it
\* was; for the source, the upstream gradient's region as it was when the
\* call was entered, summed down to the source's shape -- for every key and
\* every combination of requested gradients, the zeroing of the region
\* leaving the source's gradient alone.  The second half rests on what
\* reverse_broadcast returns where it has nothing to sum, which
\* grad_fcn_misc.py does not settle: see the three properties below.
C2_DestinationGradient ==
    Bwd("CopySlices") /\ Ok /\ call.nig[1] =>
        /\ IsSet(call.grads[1])
        /\ call.grads[1].shape = G.shape
        /\ Read(heap, call.grads[1]) = ZeroedAt(GEntry, Region)

C2_SourceGradient ==
    Bwd("CopySlices") /\ Ok /\ call.nig[2] =>
        /\ IsSet(call.grads[2])
        /\ call.grads[2].shape = call.par.shapes[2]
        /\ Read(heap, call.grads[2])
              = ReduceTo(RegionVals,
                         KeyShape(G.shape, call.par.key),
                         call.par.shapes[2])

C2_CopySlicesRegionZeroing == C2_DestinationGradient /\ C2_SourceGradient

\* The source's gradient is the one C2 describes in every call whose helper
\* returns a new array of the source's shape.
C2_HoldsOfCopyingHelper ==
    call.how = NoHelper => C2_SourceGradient

\* Its elements are the ones C2 describes, whatever the helper returns,
\* unless grad0[key] = 0 (line 195) follows a gd0[key] (line 188) that is a
\* view of gd0 and reaches the source's gradient uncopied and unsummed.
C2_SourceMayAlias ==
    /\ call.nig[1]
    /\ call.par.flag = "None"
    /\ IsView(G, call.par.key)
    /\ NothingSummed(KeyShape(G.shape, call.par.key), call.par.shapes[2])
    /\ ~call.how.fresh

C2_SourceValuesUnlessAliased ==
    Bwd("CopySlices") /\ Ok /\ call.nig[2] /\ ~C2_SourceMayAlias =>
        Read(heap, call.grads[2])
            = ReduceTo(RegionVals,
                       KeyShape(G.shape, call.par.key),
                       call.par.shapes[2])

\* A helper that returns its argument has its result zeroed with the region:
\* both gradients asked of a node whose key is a slice that names some
\* elements, the source of the region's own shape.
C2_AliasedSourceZeroed ==
    /\ Bwd("CopySlices") /\ Ok
    /\ call.nig = <<TRUE, TRUE>>
    /\ call.par.key.kind = "slice"
    /\ Region # {}
    /\ \E k \in 1..Len(RegionVals) : RegionVals[k] # 0
    /\ call.grads[2].buf = G.buf
    /\ Read(heap, call.grads[2]) = Zeros(Len(RegionVals))

(***************************************************************************)
(* Split                                                                   *)
(***************************************************************************)
SplitAxis == NormAxis(call.par.dim, Len(xt.data.shape))

\* split_size_or_sections fits the axis: any split size (1 or more), or
\* sections that add up to the axis.
SplitFits ==
    LET sos == call.par.split_size_or_sections
    IN  sos.int \/ SumSeq(sos.secs) = xt.data.shape[SplitAxis + 1]

OutPieces ==
    [q \in 1..Len(call.out) |->
        [shape |-> call.out[q].data.shape, vals |-> Read(heap, call.out[q].data)]]

SplitInverse ==
    /\ Fwd("Split") /\ SplitFits =>
          /\ Ok
          /\ Len(call.out) >= 1
          /\ ConcatShape(OutPieces, SplitAxis) = xt.data.shape
          /\ ConcatVals(OutPieces, SplitAxis) = call.pre.data
    /\ (/\ Bwd("Split")
        /\ \A q \in 1..Len(call.gin) :
              IsSet(call.gin[q]) /\ call.gentry[q] = Ones(Len(call.gentry[q]))) =>
          /\ Ok
          /\ call.grads[1].shape = xt.data.shape
          /\ Read(heap, call.grads[1]) = Ones(Prod(xt.data.shape))

\* C3: for every tensor T and every dim (negative or not) and
\* split_size_or_sections that fit it, the outputs of Split.forward
\* concatenated along dim are T, and Split.backward of an all-ones upstream
\* gradient for every output is an all-ones gradient of T's shape.
C3_SplitConcatInverse == SplitInverse

\* It holds of every tensor whose axis dim is not of length 0.
C3_HoldsOnNonEmptyAxis ==
    (\/ Fwd("Split") /\ xt.data.shape[SplitAxis + 1] > 0
     \/ Bwd("Split") /\ Len(call.par.output_shapes) > 0)
        => SplitInverse

(***************************************************************************)
(* Expand                                                                  *)
(***************************************************************************)
\* C4: for every input shape and sizes that Expand.forward accepts,
\* Expand.backward returns a gradient of the input's shape, each element the
\* sum of the upstream gradient over the positions the element was
\* broadcast to.
C4_ExpandReverseBroadcast ==
    Bwd("Expand") /\ Ok =>
        /\ call.grads[1].shape = xt.data.shape
        /\ Read(heap, call.grads[1]) = ReduceTo(GEntry, G.shape, xt.data.shape)

\* It holds of every call that did not stretch an axis of length 1 to length 0.
C4_HoldsUnlessStretchedToEmpty ==
    (/\ Bwd("Expand")
     /\ \A d \in 1..Len(xt.data.shape) :
           xt.data.shape[d] = 1 =>
               G.shape[Len(G.shape) - Len(xt.data.shape) + d] # 0)
        => Ok /\ C4_ExpandReverseBroadcast

\* sizes is one Expand accepts were each -1 the axis's own length: it has no
\* fewer entries than the input has axes, the leading ones are 1 or more, and
\* every other is -1, the axis's length, or 1 or more on an axis of length 1.
ExpandAcceptable ==
    LET sizes == call.par.sizes
        shape == xt.data.shape
        lead  == Len(sizes) - Len(shape)
    IN  /\ lead >= 0
        /\ \A i \in 1..Len(sizes) :
              IF i <= lead THEN sizes[i] >= 1
              ELSE \/ sizes[i] = -1
                   \/ sizes[i] = shape[i - lead]
                   \/ shape[i - lead] = 1 /\ sizes[i] >= 1

ExpandKeeps ==
    LET sizes == call.par.sizes
        lead  == Len(sizes) - Len(xt.data.shape)
    IN  \E i \in (lead + 1)..Len(sizes) : sizes[i] = -1

\* C5: Expand.forward with -1 at a non-leading position of sizes succeeds,
\* and the output has the input's length on that axis.
C5_ExpandKeepSize ==
    Fwd("Expand") /\ ExpandAcceptable /\ ExpandKeeps =>
        /\ Ok
        /\ LET sizes == call.par.sizes
               lead  == Len(sizes) - Len(xt.data.shape)
           IN  call.out[1].data.shape
                 = [i \in 1..Len(sizes) |->
                      IF sizes[i] = -1 THEN xt.data.shape[i - lead] ELSE sizes[i]]

\* What the call does instead: as_strided is given the -1 and raises.
C5_KeepSizeRaises ==
    Fwd("Expand") /\ ExpandAcceptable /\ ExpandKeeps =>
        call.err = "ValueError: as_strided"

(***************************************************************************)
(* MaskedFill                                                              *)
(***************************************************************************)
\* The positions of the upstream gradient under a True of the node's mask.
Masked == SetOf(KeyAt([G EXCEPT !.at = Indices(G.shape)],
                      MaskKey(call.par.mask)))

MaskedSum ==
    LET at == KeyAt([G EXCEPT !.at = Indices(G.shape)],
                    MaskKey(call.par.mask))
    IN  SumSeq([k \in 1..Len(at) |-> GEntry[at[k]]])

\* C6: MaskedFill.forward then MaskedFill.backward gives, for the input, the
\* upstream gradient with 0 at the masked positions and unchanged elsewhere,
\* and, for the value, a 0-dimensional gradient: the sum of the upstream
\* gradient, as it was on entry, over the masked positions.
C6_MaskedFillRoundTrip ==
    Bwd("MaskedFill") /\ Ok =>
        /\ call.nig[1] =>
              /\ IsSet(call.grads[1])
              /\ call.grads[1].shape = G.shape
              /\ Read(heap, call.grads[1]) = ZeroedAt(GEntry, Masked)
        /\ call.nig[2] =>
              /\ IsSet(call.grads[2])
              /\ call.grads[2].shape = <<>>
              /\ Read(heap, call.grads[2]) = <<MaskedSum>>

\* Both gradients asked of a node whose mask has a True and a False.
C6_Witness ==
    /\ Bwd("MaskedFill") /\ Ok
    /\ call.nig = <<TRUE, TRUE>>
    /\ Masked # {}
    /\ Masked # 1..Prod(G.shape)
    /\ MaskedSum > 0
    /\ Read(heap, call.grads[2]) = <<MaskedSum>>
    /\ Read(heap, call.grads[1]) = ZeroedAt(GEntry, Masked)

(***************************************************************************)
(* Staleness of a saved tensor                                             *)
(***************************************************************************)
\* An in-place forward succeeded on the tensor after node i saved it.
MutatedAfter(i) == \E j \in (i + 1)..Len(nodes) : InPlace(nodes[j])

Stale == call.err = "RuntimeError: stale saved tensor"

\* C7: when an in-place operation changed the input after Split.forward saved
\* it, Split.backward raises a staleness error and returns no gradient; when
\* none did, the same backward succeeds.
C7_VersionStaleness ==
    Bwd("Split") =>
        IF MutatedAfter(call.node)
        THEN Stale /\ call.grads = <<>>
        ELSE Ok /\ Len(call.grads) = 1 /\ IsSet(call.grads[1])

\* The staleness error is raised exactly when the input was changed, and a
\* Split that returned a tensor succeeds when it was not.
C7_StaleIffMutated ==
    Bwd("Split") =>
        /\ Stale <=> MutatedAfter(call.node)
        /\ ~MutatedAfter(call.node) /\ Len(call.par.output_shapes) > 0 => Ok

(***************************************************************************)
(* A forward that raises                                                   *)
(***************************************************************************)
\* C8: a forward call that raises has changed nothing: the input's (the
\* destination's) elements and version and the source's elements are as
\* before the call, no tensor is returned, no node is linked, and neither
\* the write nor inplace_update nor build_links has happened.
C8_FailedForwardNoEffect ==
    call.ph = "forward" /\ ~Ok =>
        /\ Read(heap, xt.data) = call.pre.data
        /\ xt.version = call.pre.version
        /\ xt.grad_fn = 0
        /\ IsSet(call.src) => Read(heap, call.src) = call.srcvals
        /\ call.out = <<>>
        /\ nodes = <<>>
        /\ \A k \in 1..Len(call.events) :
              call.events[k] \notin {"write", "inplace_update", "build_links"}

\* An in-place MaskedFill of a tensor that has elements and may be written,
\* with an all-True mask that is not boolean.
C8_Witness ==
    /\ Fwd("MaskedFill") /\ call.par.inplace
    /\ call.err = "RuntimeError: mask must be bool"
    /\ ~xt.noinplace
    /\ Len(call.pre.data) > 0
    /\ \A k \in 1..Len(call.par.mask.vals) : call.par.mask.vals[k]
    /\ Read(heap, xt.data) = call.pre.data

(***************************************************************************)
(* The in-place guard                                                      *)
(***************************************************************************)
InPlaceCall ==
    \/ call.op \in {"CopySlices", "Copy"}
    \/ call.op = "MaskedFill" /\ call.par.inplace

InPlaceNodes == {i \in 1..Len(nodes) : InPlace(nodes[i])}

\* C9: an in-place forward (CopySlices, Copy, MaskedFill with inplace) calls
\* inplace_precheck before it writes and inplace_update after, once each, so
\* that the input's version has gone up by one for each in-place forward that
\* succeeded and by nothing for one that raised; the other forwards and every
\* backward leave the input's version and elements as they were.
C9_InPlaceGuardProtocol ==
    /\ xt.version = Cardinality(InPlaceNodes)
    /\ call.ph = "forward" /\ InPlaceCall /\ Ok =>
          /\ call.events = <<"inplace_precheck", "write", "inplace_update">>
          /\ xt.version = call.pre.version + 1
    /\ call.ph = "forward" /\ InPlaceCall /\ ~Ok =>
          /\ call.events \in {<<>>, <<"inplace_precheck">>}
          /\ xt.version = call.pre.version
    /\ call.ph = "forward" /\ ~InPlaceCall =>
          /\ \A k \in 1..Len(call.events) :
                call.events[k] \notin {"inplace_precheck", "write", "inplace_update"}
          /\ xt.version = call.pre.version
          /\ Read(heap, xt.data) = call.pre.data
    /\ call.ph = "backward" =>
          /\ xt.version = call.pre.version
          /\ Read(heap, xt.data) = call.pre.data

\* A backward call after two in-place forwards, the last of them a Copy.
C9_Witness ==
    /\ call.ph = "backward" /\ Ok
    /\ xt.version = 2
    /\ nodes[2].op = "Copy"
    /\ Len(heap[1]) > 0

(***************************************************************************)
(* The upstream gradient                                                   *)
(***************************************************************************)
OneOutput == call.op \in {"MaskedFill", "CopySlices", "Copy"}

\* C10: MaskedFill.backward, CopySlices.backward and Copy.backward leave the
\* upstream gradient array as it was on entry, and no gradient they return
\* shares its buffer.
C10_BackwardPure ==
    call.ph = "backward" /\ OneOutput /\ Ok =>
        /\ Read(heap, G) = GEntry
        /\ \A k \in 1..Len(call.grads) :
              IsSet(call.grads[k]) => call.grads[k].buf # G.buf

\* The positions of the upstream gradient that the call sets to 0 when the
\* gradient of the first input is asked for.
Zeroed ==
    CASE call.op = "MaskedFill" -> Masked
      [] call.op = "CopySlices" -> Region
      [] OTHER -> 1..Prod(G.shape)

\* The gradients of the second input that may be the upstream gradient's
\* own storage: Copy's for a source on the destination's backend (line 227),
\* and CopySlices' where gd0[key] is a view that reverse_broadcast returns
\* as it is.
SourceMayShare ==
    \/ call.op = "Copy" /\ call.par.flag = "None"
    \/ /\ call.op = "CopySlices"
       /\ call.par.flag = "None"
       /\ IsView(G, call.par.key)
       /\ NothingSummed(KeyShape(G.shape, call.par.key), call.par.shapes[2])
       /\ ~call.how.fresh

\* C10, amended: the upstream gradient array is as it was on entry when the
\* gradient of the first input (the input of MaskedFill, the destination of
\* CopySlices and Copy) is not asked for; when it is, the gradient returned
\* for the first input is the upstream gradient array itself, whose elements
\* at the masked positions, in the region of the key, or everywhere are 0
\* and whose other elements are as they were; and the gradient returned for
\* the second input does not share the upstream gradient's buffer, the two
\* cases of SourceMayShare apart.
C10_UpstreamZeroedForInputGrad ==
    call.ph = "backward" /\ OneOutput /\ Ok =>
        /\ ~call.nig[1] => Read(heap, G) = GEntry
        /\ call.nig[1] =>
              /\ call.grads[1] = G
              /\ Read(heap, G) = ZeroedAt(GEntry, Zeroed)
        /\ IsSet(call.grads[2]) /\ ~SourceMayShare =>
              call.grads[2].buf # G.buf

\* MaskedFill.backward asked for both gradients where the mask is true
\* somewhere and the upstream gradient is not 0 there: the upstream gradient
\* has changed, it is the input's gradient, and the value's gradient is
\* another array.
C10_Witness ==
    /\ Bwd("MaskedFill") /\ Ok
    /\ call.nig = <<TRUE, TRUE>>
    /\ Masked # {}
    /\ Read(heap, G) # GEntry
    /\ call.grads[1] = G
    /\ IsSet(call.grads[2])
    /\ call.grads[2].buf # G.buf

====
